---- MODULE Spec2Model ----
(***************************************************************************)
(* Model of adenotifier/notifier.py: the manifest assembler                *)
(* (add_to_manifest, add_multiple_entries_to_manifest), the notifier       *)
(* (notify_manifests) and their helpers (search_manifests, parse_batch),   *)
(* run by independent callers against one remote manifest store.           *)
(*                                                                         *)
(* The Manifest class (adenotifier/manifest.py) and the remote service     *)
(* behind it are modelled from the collaborator contract of the            *)
(* specification: create, fetch, fetch entries, add entry/entries, notify. *)
(*                                                                         *)
(* Spec interleaves the calls of independent callers, with sources that    *)
(* differ in single_file_manifest and max_files_in_manifest.  SpecConfig   *)
(* runs one call at a time and lets the last call range over every source  *)
(* configuration (missing keys, path_replace, batch_from_file_path_regex). *)
(* SpecSerial runs add_to_manifest in non-single-file mode and             *)
(* notify_manifests with one writer at a time.                             *)
(***************************************************************************)
EXTENDS Integers, Sequences, FiniteSets, TLC

\* ---------------------------------------------------------------- bounds
\* Calls started in one behaviour.
MaxCalls == 2
\* Calls started in one behaviour of SpecConfig.
MaxConfigCalls == 2
\* Longest entries list handed to add_multiple_entries_to_manifest.
MaxEntries == 2
\* Largest configured max_files_in_manifest.
MaxFilesLimit == 2
\* Remote calls (add_entry, notify of notify_manifests) that fail for a reason
\* other than the manifest's state.
MaxFaults == 1
\* Calls started in one behaviour of SpecSerial.
MaxSerialCalls == 5

\* The independent callers (processes or instances) of the notifier.
Procs == {1, 2}

\* ------------------------------------------------------- values and inputs
\* Python's None for a batch.
NoBatch == -1

\* Characters of a file url; the digits among them.
Chars == {"r", "x", "1", "2", "3", "4", "5", "6", "7", "8", "9"}
Digits == {"1", "2", "3", "4", "5", "6", "7", "8", "9"}

\* The file urls callers submit.
Files == {<<"r", "1">>, <<"r", "2">>, <<"r", "x">>}

\* path_replace / path_replace_with as configured when both are present.
PathReplace == <<"r">>
PathReplaceWith == <<"3">>

\* batch_from_file_path_regex: a sequence of capturing groups, each matching
\* one character: "d" is (\d), "w" is (\w).  Index 0 is "not configured".
Patterns == << <<"d">>, <<"w">>, <<"d", "d">> >>

\* A data source configuration object.  A BOOLEAN field says whether the
\* key is present (id, ade_source_system, ade_source_entity, format,
\* path_replace with path_replace_with) or gives its value
\* (single_file_manifest); 0 is "key absent" for the two numeric fields.
Sources ==
    [id : BOOLEAN,
     ade_source_system : BOOLEAN,
     ade_source_entity : BOOLEAN,
     format : BOOLEAN,
     single_file_manifest : BOOLEAN,
     max_files_in_manifest : 0..MaxFilesLimit,
     path_replace : BOOLEAN,
     batch_from_file_path_regex : 0..Len(Patterns)]

\* ------------------------------------------------------------ pure helpers
\* int() of one digit character.
DigitVal(c) == CHOOSE n \in 1..9 : <<"1", "2", "3", "4", "5", "6", "7", "8", "9">>[n] = c

\* int(): base-10 value of a string of digits.
RECURSIVE IntOf(_)
IntOf(s) ==
    IF s = <<>> THEN 0
    ELSE 10 * IntOf(SubSeq(s, 1, Len(s) - 1)) + DigitVal(s[Len(s)])

\* One group of a pattern against one character.
ClassMatch(class, c) == IF class = "d" THEN c \in Digits ELSE c \in Chars

\* The positions at which the pattern matches the url.
MatchPositions(file_url, regexp) ==
    {i \in 1..(Len(file_url) - Len(regexp) + 1) :
        \A j \in 1..Len(regexp) : ClassMatch(regexp[j], file_url[i + j - 1])}

\* parse_batch: re.search (leftmost match), the groups concatenated, int().
\* ok is FALSE where the code raises (no match: None has no groups();
\* int() of a string that is empty or holds a non-digit).
parse_batch(file_url, regexp) ==
    LET pos == MatchPositions(file_url, regexp) IN
    IF pos = {} THEN [ok |-> FALSE, value |-> NoBatch]
    ELSE LET i == CHOOSE k \in pos : \A m \in pos : k <= m
             batch == SubSeq(file_url, i, i + Len(regexp) - 1)
         IN IF batch # <<>> /\ \A k \in 1..Len(batch) : batch[k] \in Digits
            THEN [ok |-> TRUE, value |-> IntOf(batch)]
            ELSE [ok |-> FALSE, value |-> NoBatch]

\* str.replace(old, new): every non-overlapping occurrence, left to right.
RECURSIVE StrReplace(_, _, _)
StrReplace(s, old, new) ==
    IF Len(s) < Len(old) \/ s = <<>> THEN s
    ELSE IF SubSeq(s, 1, Len(old)) = old
         THEN new \o StrReplace(SubSeq(s, Len(old) + 1, Len(s)), old, new)
         ELSE <<Head(s)>> \o StrReplace(Tail(s), old, new)

\* The entry path of lines 203-213 and 304-313.
RewrittenPath(src, path) ==
    IF src.path_replace THEN StrReplace(path, PathReplace, PathReplaceWith)
    ELSE path

\* ------------------------------------------------------------------ state
VARIABLES
    store,              \* the remote service: manifest id -> state, created, entries
    faults,             \* remote calls that failed although the manifest was OPEN
    calls,              \* calls started so far
    pc,                 \* each caller's position in the function it runs
    source,             \* the call's source argument
    file_url,           \* add_to_manifest's file_url argument
    entries,            \* add_multiple_entries_to_manifest's entries argument
    open_manifest_ids,  \* the local list built from the search result
    manifest,           \* the call's one Manifest object: id, manifest_entries
    entry_path,         \* add_to_manifest's local entry_path
    batch,              \* add_to_manifest's local batch
    ops,                \* the remote operations the call has issued, in order
    manifests           \* notify_manifests' result list: references to Manifest objects

vars == <<store, faults, calls, pc, source, file_url, entries, open_manifest_ids,
          manifest, entry_path, batch, ops, manifests>>

\* A source argument of a caller that runs nothing.
NoSource ==
    [id |-> TRUE, ade_source_system |-> TRUE, ade_source_entity |-> TRUE,
     format |-> TRUE, single_file_manifest |-> FALSE, max_files_in_manifest |-> 0,
     path_replace |-> FALSE, batch_from_file_path_regex |-> 0]

\* A Manifest object before create() or fetch_manifest(): no id.
NewManifest == [id |-> 0, manifest_entries |-> <<>>]

Init ==
    /\ store = <<>>
    /\ faults = 0
    /\ calls = 0
    /\ pc = [p \in Procs |-> "idle"]
    /\ source = [p \in Procs |-> NoSource]
    /\ file_url = [p \in Procs |-> <<>>]
    /\ entries = [p \in Procs |-> <<>>]
    /\ open_manifest_ids = [p \in Procs |-> <<>>]
    /\ manifest = [p \in Procs |-> NewManifest]
    /\ entry_path = [p \in Procs |-> <<>>]
    /\ batch = [p \in Procs |-> NoBatch]
    /\ ops = [p \in Procs |-> <<>>]
    /\ manifests = [p \in Procs |-> <<>>]

\* ------------------------------------------------- the remote manifest store
\* Manifest ids are 1, 2, ... in creation order, and the service stamps each
\* manifest with a `created` time later than that of the one before.
LastCreated == IF store = <<>> THEN 0 ELSE store[Len(store)].created

CreatedTimes == {LastCreated + 1}

\* create(): a new OPEN manifest with no entries.
RemoteCreate(c) == Append(store, [state |-> "OPEN", created |-> c, entries |-> <<>>])

\* add_entry / add_entries on an OPEN manifest.
RemoteAdd(id, es) == [store EXCEPT ![id].entries = @ \o es]

\* notify() on an OPEN manifest.
RemoteNotify(id) == [store EXCEPT ![id].state = "NOTIFIED"]

IsOpen(id) == id \in 1..Len(store) /\ store[id].state = "OPEN"

\* The OPEN manifests' summaries, as the service lists them for ?state=OPEN.
OpenSummaries ==
    {[id |-> i, created |-> store[i].created] : i \in {j \in 1..Len(store) : IsOpen(j)}}

\* Every order in which the service may return a set of summaries.
Orderings(S) ==
    {s \in [1..Cardinality(S) -> S] : \A i, j \in 1..Cardinality(S) : i # j => s[i] # s[j]}

\* One record of a call's remote operations.
Op(op, id, ok) == [op |-> op, id |-> id, ok |-> ok]

\* ------------------------------------------------------- search_manifests
\* sorted() is stable: x goes after every element whose key is <= its own.
SortedInsert(t, x) ==
    LET k == Cardinality({i \in 1..Len(t) : t[i].created <= x.created})
    IN SubSeq(t, 1, k) \o <<x>> \o SubSeq(t, k + 1, Len(t))

RECURSIVE SortedByCreated(_)
SortedByCreated(s) ==
    IF s = <<>> THEN <<>>
    ELSE SortedInsert(SortedByCreated(SubSeq(s, 1, Len(s) - 1)), s[Len(s)])

\* search_manifests without its sorted(): the response in the service's order.
search_manifests_unsorted(response) == response

\* Lines 77-83: the response, ordered by created time when it is not empty.
search_manifests(response) ==
    IF response # <<>> THEN SortedByCreated(response) ELSE response

\* Lines 151-152 and 366-367: the ids of the search result, in its order.
IdsOf(open_manifests) == [i \in 1..Len(open_manifests) |-> open_manifests[i].id]

\* The candidate taken from the front of the list: the oldest OPEN manifest.
CandidateOldest(ids) == ids[1]

\* open_manifest_ids[-1] of lines 184, 196 and 200.
Candidate(ids) == ids[Len(ids)]

\* The limit test with > for >=: one entry more than the limit is let in.
LimitExceeded(n, max) == n > max

\* Line 189: the candidate has reached the configured limit.
LimitReached(n, max) == n >= max

\* Lines 157-164, 275-282, 370-377: the Manifest constructor's arguments read
\* source["attributes"] and source["manifest_parameters"]["format"].
HasIdentity(src) == src.ade_source_system /\ src.ade_source_entity
HasMandatory(src) == HasIdentity(src) /\ src.format

\* ---------------------------------------------------------- add_to_manifest
\* The entry's batch parsed from the entry path, after path_replace.
EntryBatchRewritten(src, url) ==
    IF src.batch_from_file_path_regex = 0 THEN NoBatch
    ELSE LET r == parse_batch(RewrittenPath(src, url),
                              Patterns[src.batch_from_file_path_regex])
         IN IF r.ok THEN r.value ELSE NoBatch

\* Lines 215-226: the entry's batch, None when no pattern is configured or
\* parse_batch raises.
EntryBatch(src, url) ==
    IF src.batch_from_file_path_regex = 0 THEN NoBatch
    ELSE LET r == parse_batch(url, Patterns[src.batch_from_file_path_regex])
         IN IF r.ok THEN r.value ELSE NoBatch

\* add_to_manifest searching the OPEN manifests in single-file mode too.
add_begin_search(p, S, F, max) ==
    /\ pc[p] = "idle"
    /\ calls < max
    /\ \E src \in S, f \in F, response \in Orderings(OpenSummaries) :
        /\ calls' = calls + 1
        /\ source' = [source EXCEPT ![p] = src]
        /\ file_url' = [file_url EXCEPT ![p] = f]
        /\ IF ~HasIdentity(src)
           THEN /\ pc' = [pc EXCEPT ![p] = "add_raised"]
                /\ UNCHANGED <<ops, open_manifest_ids>>
           ELSE /\ ops' = [ops EXCEPT ![p] = <<Op("search", 0, TRUE)>>]
                /\ open_manifest_ids' = [open_manifest_ids EXCEPT ![p] =
                             IdsOf(search_manifests(response))]
                /\ pc' = [pc EXCEPT ![p] =
                             IF HasMandatory(src) THEN "add_decide" ELSE "add_raised"]
    /\ UNCHANGED <<store, faults, entries, manifest, entry_path, batch, manifests>>

\* Lines 129-164: the call starts; without single_file_manifest it searches the
\* OPEN manifests (the arguments of the search read the identity keys), then
\* it constructs the Manifest object (which reads the identity keys and format).
add_begin(p, S, F, max) ==
    /\ pc[p] = "idle"
    /\ calls < max
    /\ \E src \in S, f \in F, response \in Orderings(OpenSummaries) :
        LET searched == ~src.single_file_manifest IN
        /\ calls' = calls + 1
        /\ source' = [source EXCEPT ![p] = src]
        /\ file_url' = [file_url EXCEPT ![p] = f]
        /\ IF searched /\ ~HasIdentity(src)
           THEN /\ pc' = [pc EXCEPT ![p] = "add_raised"]
                /\ UNCHANGED <<ops, open_manifest_ids>>
           ELSE /\ ops' = [ops EXCEPT ![p] =
                             IF searched THEN <<Op("search", 0, TRUE)>> ELSE <<>>]
                /\ open_manifest_ids' = [open_manifest_ids EXCEPT ![p] =
                             IF searched THEN IdsOf(search_manifests(response)) ELSE <<>>]
                /\ pc' = [pc EXCEPT ![p] =
                             IF HasMandatory(src) THEN "add_decide" ELSE "add_raised"]
    /\ UNCHANGED <<store, faults, entries, manifest, entry_path, batch, manifests>>

\* Lines 178-187 and 198-201: no OPEN manifest: create one; a limit is
\* configured: fetch the candidate and its entries; otherwise fetch the candidate.
add_decide(p) ==
    /\ pc[p] = "add_decide"
    /\ IF open_manifest_ids[p] = <<>>
       THEN \E c \in CreatedTimes :
            /\ store' = RemoteCreate(c)
            /\ manifest' = [manifest EXCEPT ![p].id = Len(store) + 1]
            /\ ops' = [ops EXCEPT ![p] = Append(@, Op("create", Len(store) + 1, TRUE))]
            /\ pc' = [pc EXCEPT ![p] = "add_entry"]
       ELSE LET id == Candidate(open_manifest_ids[p]) IN
            IF source[p].max_files_in_manifest # 0
            THEN /\ manifest' = [manifest EXCEPT ![p] =
                        [id |-> id, manifest_entries |-> store[id].entries]]
                 /\ ops' = [ops EXCEPT ![p] =
                        @ \o <<Op("fetch", id, TRUE), Op("fetch_entries", id, TRUE)>>]
                 /\ pc' = [pc EXCEPT ![p] = "add_limit"]
                 /\ UNCHANGED store
            ELSE /\ manifest' = [manifest EXCEPT ![p].id = id]
                 /\ ops' = [ops EXCEPT ![p] = Append(@, Op("fetch", id, TRUE))]
                 /\ pc' = [pc EXCEPT ![p] = "add_entry"]
                 /\ UNCHANGED store
    /\ UNCHANGED <<faults, calls, source, file_url, entries, open_manifest_ids,
                   entry_path, batch, manifests>>

\* Lines 189-197: the candidate is full: create a manifest; else fetch it again.
add_limit(p) ==
    /\ pc[p] = "add_limit"
    /\ IF LimitReached(Len(manifest[p].manifest_entries), source[p].max_files_in_manifest)
       THEN \E c \in CreatedTimes :
            /\ store' = RemoteCreate(c)
            /\ manifest' = [manifest EXCEPT ![p].id = Len(store) + 1]
            /\ ops' = [ops EXCEPT ![p] = Append(@, Op("create", Len(store) + 1, TRUE))]
       ELSE LET id == Candidate(open_manifest_ids[p]) IN
            /\ manifest' = [manifest EXCEPT ![p].id = id]
            /\ ops' = [ops EXCEPT ![p] = Append(@, Op("fetch", id, TRUE))]
            /\ UNCHANGED store
    /\ pc' = [pc EXCEPT ![p] = "add_entry"]
    /\ UNCHANGED <<faults, calls, source, file_url, entries, open_manifest_ids,
                   entry_path, batch, manifests>>

\* add_entry appending whatever the manifest's state.
AddEntryCallUnchecked(p, path, b, next, failed) ==
    LET id == manifest[p].id IN
    /\ store' = RemoteAdd(id, <<[sourceFile |-> path, batch |-> b]>>)
    /\ ops' = [ops EXCEPT ![p] = Append(@, Op("add_entry", id, TRUE))]
    /\ pc' = [pc EXCEPT ![p] = next]
    /\ UNCHANGED faults

\* manifest.add_entry(path, b) of lines 230 and 238 on the object's manifest:
\* it succeeds on an OPEN manifest, and fails on any other or by a fault of
\* the transport.  `next` is the position after a success, `failed` after a
\* failure.
AddEntryCall(p, path, b, next, failed) ==
    LET id == manifest[p].id IN
    \/ /\ IsOpen(id)
       /\ store' = RemoteAdd(id, <<[sourceFile |-> path, batch |-> b]>>)
       /\ ops' = [ops EXCEPT ![p] = Append(@, Op("add_entry", id, TRUE))]
       /\ pc' = [pc EXCEPT ![p] = next]
       /\ UNCHANGED faults
    \/ /\ ~IsOpen(id)
       /\ ops' = [ops EXCEPT ![p] = Append(@, Op("add_entry", id, FALSE))]
       /\ pc' = [pc EXCEPT ![p] = failed]
       /\ UNCHANGED <<store, faults>>
    \/ /\ IsOpen(id)
       /\ faults < MaxFaults
       /\ faults' = faults + 1
       /\ ops' = [ops EXCEPT ![p] = Append(@, Op("add_entry", id, FALSE))]
       /\ pc' = [pc EXCEPT ![p] = failed]
       /\ UNCHANGED store

\* Lines 240-248: after the entry is added, notify in single-file mode, else return.
AfterAdd(src) == IF src.single_file_manifest THEN "add_notify" ELSE "add_done"

\* add_to_manifest going on after a failed add_entry as after a success.
add_entry_swallow(p) ==
    /\ pc[p] = "add_entry"
    /\ LET path == RewrittenPath(source[p], file_url[p])
           b == EntryBatch(source[p], file_url[p])
       IN /\ entry_path' = [entry_path EXCEPT ![p] = path]
          /\ batch' = [batch EXCEPT ![p] = b]
          /\ AddEntryCall(p, path, b, AfterAdd(source[p]), AfterAdd(source[p]))
    /\ UNCHANGED <<calls, source, file_url, entries, open_manifest_ids, manifest,
                   manifests>>

\* Lines 203-235: the entry path and the batch, then the first add_entry.
add_entry(p) ==
    /\ pc[p] = "add_entry"
    /\ LET path == RewrittenPath(source[p], file_url[p])
           b == EntryBatch(source[p], file_url[p])
       IN /\ entry_path' = [entry_path EXCEPT ![p] = path]
          /\ batch' = [batch EXCEPT ![p] = b]
          /\ AddEntryCall(p, path, b, AfterAdd(source[p]), "add_retry_create")
    /\ UNCHANGED <<calls, source, file_url, entries, open_manifest_ids, manifest,
                   manifests>>

\* add_to_manifest retrying on the manifest it already holds, with no create().
add_retry_same(p) ==
    /\ pc[p] = "add_retry_create"
    /\ pc' = [pc EXCEPT ![p] = "add_retry_entry"]
    /\ UNCHANGED <<store, faults, calls, source, file_url, entries, open_manifest_ids,
                   manifest, entry_path, batch, ops, manifests>>

\* Lines 236-237: the first add_entry failed: create a new manifest.
add_retry_create(p) ==
    /\ pc[p] = "add_retry_create"
    /\ \E c \in CreatedTimes :
        /\ store' = RemoteCreate(c)
        /\ manifest' = [manifest EXCEPT ![p].id = Len(store) + 1]
        /\ ops' = [ops EXCEPT ![p] = Append(@, Op("create", Len(store) + 1, TRUE))]
    /\ pc' = [pc EXCEPT ![p] = "add_retry_entry"]
    /\ UNCHANGED <<faults, calls, source, file_url, entries, open_manifest_ids,
                   entry_path, batch, manifests>>

\* add_to_manifest retrying again, with one more manifest, when the retried
\* add_entry fails.
add_retry_again(p) ==
    /\ pc[p] = "add_retry_entry"
    /\ AddEntryCall(p, entry_path[p], batch[p], AfterAdd(source[p]), "add_retry_create")
    /\ UNCHANGED <<calls, source, file_url, entries, open_manifest_ids, manifest,
                   entry_path, batch, manifests>>

\* Line 238: the retried add_entry; its failure is not caught.
add_retry_entry(p) ==
    /\ pc[p] = "add_retry_entry"
    /\ AddEntryCall(p, entry_path[p], batch[p], AfterAdd(source[p]), "add_raised")
    /\ UNCHANGED <<calls, source, file_url, entries, open_manifest_ids, manifest,
                   entry_path, batch, manifests>>

\* Lines 243-248: single_file_manifest: notify the manifest, then return it.
add_notify(p) ==
    /\ pc[p] = "add_notify"
    /\ LET id == manifest[p].id IN
       IF IsOpen(id)
       THEN /\ store' = RemoteNotify(id)
            /\ ops' = [ops EXCEPT ![p] = Append(@, Op("notify", id, TRUE))]
            /\ pc' = [pc EXCEPT ![p] = "add_done"]
       ELSE /\ ops' = [ops EXCEPT ![p] = Append(@, Op("notify", id, FALSE))]
            /\ pc' = [pc EXCEPT ![p] = "add_raised"]
            /\ UNCHANGED store
    /\ UNCHANGED <<faults, calls, source, file_url, entries, open_manifest_ids,
                   manifest, entry_path, batch, manifests>>

\* ------------------------------------------ add_multiple_entries_to_manifest
\* The entries lists over a set of urls: sourceFile set, no batch of their own.
EntryLists(F) ==
    UNION {[1..n -> {[sourceFile |-> f, batch |-> NoBatch] : f \in F}] : n \in 0..MaxEntries}

\* Lines 304-313: path_replace on every entry's sourceFile, in place.
RewrittenEntries(src, es) ==
    [i \in 1..Len(es) |-> [es[i] EXCEPT !.sourceFile = RewrittenPath(src, @)]]

\* The name `entry` at line 320: the loop variable of lines 309-313, bound to
\* the last entry once that loop has run, unbound when it has not.
EntryIsBound(src, es) == src.path_replace /\ es # <<>>

\* Lines 317-326: the loop of the try block from entry i on; every iteration
\* parses entry["sourceFile"] and the first exception (an unbound name, or
\* parse_batch raising) ends the loop, keeping what was assigned before.
RECURSIVE BatchLoop(_, _, _, _)
BatchLoop(es, i, bound, regexp) ==
    IF i > Len(es) THEN es
    ELSE LET r == IF bound THEN parse_batch(es[Len(es)].sourceFile, regexp)
                  ELSE [ok |-> FALSE, value |-> NoBatch]
         IN IF r.ok THEN BatchLoop([es EXCEPT ![i].batch = r.value], i + 1, bound, regexp)
            ELSE es

\* Lines 304-328: the entries as handed to add_entries.
BulkEntries(src, es) ==
    LET rewritten == RewrittenEntries(src, es) IN
    IF src.batch_from_file_path_regex = 0 THEN rewritten
    ELSE BatchLoop(rewritten, 1, EntryIsBound(src, es),
                   Patterns[src.batch_from_file_path_regex])

\* add_multiple_entries_to_manifest choosing its manifest as add_to_manifest
\* does: the newest OPEN manifest when the search finds one.
bulk_begin_reuse(p, S, L, max) ==
    /\ pc[p] = "idle"
    /\ calls < max
    /\ \E src \in S, es \in L, c \in CreatedTimes, response \in Orderings(OpenSummaries) :
        LET ids == IdsOf(search_manifests(response)) IN
        /\ HasMandatory(src)
        /\ calls' = calls + 1
        /\ source' = [source EXCEPT ![p] = src]
        /\ entries' = [entries EXCEPT ![p] = es]
        /\ pc' = [pc EXCEPT ![p] = "bulk_add"]
        /\ IF ids = <<>>
           THEN /\ store' = RemoteCreate(c)
                /\ manifest' = [manifest EXCEPT ![p].id = Len(store) + 1]
                /\ ops' = [ops EXCEPT ![p] = <<Op("create", Len(store) + 1, TRUE)>>]
           ELSE /\ manifest' = [manifest EXCEPT ![p].id = Candidate(ids)]
                /\ ops' = [ops EXCEPT ![p] =
                       <<Op("search", 0, TRUE), Op("fetch", Candidate(ids), TRUE)>>]
                /\ UNCHANGED store
    /\ UNCHANGED <<faults, file_url, open_manifest_ids, entry_path, batch, manifests>>

\* Lines 274-302: the Manifest object is constructed, then a manifest is created.
bulk_begin(p, S, L, max) ==
    /\ pc[p] = "idle"
    /\ calls < max
    /\ \E src \in S, es \in L, c \in CreatedTimes :
        /\ calls' = calls + 1
        /\ source' = [source EXCEPT ![p] = src]
        /\ entries' = [entries EXCEPT ![p] = es]
        /\ IF HasMandatory(src)
           THEN /\ store' = RemoteCreate(c)
                /\ manifest' = [manifest EXCEPT ![p].id = Len(store) + 1]
                /\ ops' = [ops EXCEPT ![p] = <<Op("create", Len(store) + 1, TRUE)>>]
                /\ pc' = [pc EXCEPT ![p] = "bulk_add"]
           ELSE /\ pc' = [pc EXCEPT ![p] = "bulk_raised"]
                /\ UNCHANGED <<store, manifest, ops>>
    /\ UNCHANGED <<faults, file_url, open_manifest_ids, entry_path, batch, manifests>>

\* Lines 304-332: the entries are rewritten and batched, then added in one call.
bulk_add(p) ==
    /\ pc[p] = "bulk_add"
    /\ LET id == manifest[p].id
           es == BulkEntries(source[p], entries[p])
       IN /\ entries' = [entries EXCEPT ![p] = es]
          /\ IF IsOpen(id)
             THEN /\ store' = RemoteAdd(id, es)
                  /\ ops' = [ops EXCEPT ![p] = Append(@, Op("add_entries", id, TRUE))]
                  /\ pc' = [pc EXCEPT ![p] = "bulk_notify"]
             ELSE /\ ops' = [ops EXCEPT ![p] = Append(@, Op("add_entries", id, FALSE))]
                  /\ pc' = [pc EXCEPT ![p] = "bulk_raised"]
                  /\ UNCHANGED store
    /\ UNCHANGED <<faults, calls, source, file_url, open_manifest_ids, manifest,
                   entry_path, batch, manifests>>

\* Lines 334-336: the manifest is notified and returned.
bulk_notify(p) ==
    /\ pc[p] = "bulk_notify"
    /\ LET id == manifest[p].id IN
       IF IsOpen(id)
       THEN /\ store' = RemoteNotify(id)
            /\ ops' = [ops EXCEPT ![p] = Append(@, Op("notify", id, TRUE))]
            /\ pc' = [pc EXCEPT ![p] = "bulk_done"]
       ELSE /\ ops' = [ops EXCEPT ![p] = Append(@, Op("notify", id, FALSE))]
            /\ pc' = [pc EXCEPT ![p] = "bulk_raised"]
            /\ UNCHANGED store
    /\ UNCHANGED <<faults, calls, source, file_url, entries, open_manifest_ids,
                   manifest, entry_path, batch, manifests>>

\* --------------------------------------------------------- notify_manifests
\* notify_manifests taking only the newest OPEN manifest of the search result.
notify_begin_newest(p, S, max) ==
    /\ pc[p] = "idle"
    /\ calls < max
    /\ \E src \in S, response \in Orderings(OpenSummaries) :
        LET all == IdsOf(search_manifests(response))
            ids == IF all = <<>> THEN <<>> ELSE <<all[Len(all)]>>
        IN
        /\ HasMandatory(src) /\ src.id
        /\ calls' = calls + 1
        /\ source' = [source EXCEPT ![p] = src]
        /\ ops' = [ops EXCEPT ![p] = <<Op("search", 0, TRUE)>>]
        /\ open_manifest_ids' = [open_manifest_ids EXCEPT ![p] = ids]
        /\ pc' = [pc EXCEPT ![p] = IF ids # <<>> THEN "notify_loop" ELSE "notify_done"]
    /\ UNCHANGED <<store, faults, file_url, entries, manifest, entry_path, batch,
                   manifests>>

\* Lines 355-387: the search (its arguments read the identity keys), the
\* Manifest object (which reads format too) and, with no OPEN manifest, the
\* warning, whose message reads source["id"].
notify_begin(p, S, max) ==
    /\ pc[p] = "idle"
    /\ calls < max
    /\ \E src \in S, response \in Orderings(OpenSummaries) :
        LET ids == IdsOf(search_manifests(response)) IN
        /\ calls' = calls + 1
        /\ source' = [source EXCEPT ![p] = src]
        /\ IF ~HasIdentity(src)
           THEN /\ pc' = [pc EXCEPT ![p] = "notify_raised"]
                /\ UNCHANGED <<ops, open_manifest_ids>>
           ELSE /\ ops' = [ops EXCEPT ![p] = <<Op("search", 0, TRUE)>>]
                /\ open_manifest_ids' = [open_manifest_ids EXCEPT ![p] = ids]
                /\ pc' = [pc EXCEPT ![p] =
                            IF ~src.format THEN "notify_raised"
                            ELSE IF ids # <<>> THEN "notify_loop"
                            ELSE IF src.id THEN "notify_done"
                            ELSE "notify_raised"]
    /\ UNCHANGED <<store, faults, file_url, entries, manifest, entry_path, batch,
                   manifests>>

\* notify_manifests going on to the next id when fetch or notify fails, and
\* returning the manifests it did notify.
notify_loop_swallow(p) ==
    /\ pc[p] = "notify_loop"
    /\ LET manifest_id == open_manifest_ids[p][Len(manifests[p]) + 1] IN
       /\ manifest' = [manifest EXCEPT ![p].id = manifest_id]
       /\ IF IsOpen(manifest_id)
          THEN /\ store' = RemoteNotify(manifest_id)
               /\ ops' = [ops EXCEPT ![p] =
                      @ \o <<Op("fetch", manifest_id, TRUE), Op("notify", manifest_id, TRUE)>>]
               /\ manifests' = [manifests EXCEPT ![p] = Append(@, p)]
               /\ pc' = [pc EXCEPT ![p] =
                      IF Len(manifests[p]) + 1 = Len(open_manifest_ids[p])
                      THEN "notify_done" ELSE "notify_loop"]
               /\ UNCHANGED open_manifest_ids
          ELSE /\ ops' = [ops EXCEPT ![p] =
                      @ \o <<Op("fetch", manifest_id, TRUE), Op("notify", manifest_id, FALSE)>>]
               /\ open_manifest_ids' = [open_manifest_ids EXCEPT ![p] =
                      SubSeq(@, 1, Len(manifests[p]))
                      \o SubSeq(@, Len(manifests[p]) + 2, Len(@))]
               /\ pc' = [pc EXCEPT ![p] =
                      IF Len(manifests[p]) + 1 = Len(open_manifest_ids[p])
                      THEN "notify_done" ELSE "notify_loop"]
               /\ UNCHANGED <<store, manifests>>
    /\ UNCHANGED <<faults, calls, source, file_url, entries, entry_path, batch>>

\* Lines 390-394, one iteration: the next id is fetched into the call's
\* Manifest object, notified, and the object is appended to the result list.
\* A notify() that fails (the manifest is no longer OPEN, or a fault of the
\* transport) is not caught.
notify_loop(p) ==
    /\ pc[p] = "notify_loop"
    /\ LET manifest_id == open_manifest_ids[p][Len(manifests[p]) + 1] IN
       /\ manifest' = [manifest EXCEPT ![p].id = manifest_id]
       /\ \/ /\ IsOpen(manifest_id)
             /\ store' = RemoteNotify(manifest_id)
             /\ ops' = [ops EXCEPT ![p] =
                    @ \o <<Op("fetch", manifest_id, TRUE), Op("notify", manifest_id, TRUE)>>]
             /\ manifests' = [manifests EXCEPT ![p] = Append(@, p)]
             /\ pc' = [pc EXCEPT ![p] =
                    IF Len(manifests[p]) + 1 = Len(open_manifest_ids[p])
                    THEN "notify_done" ELSE "notify_loop"]
             /\ UNCHANGED faults
          \/ /\ ~IsOpen(manifest_id)
             /\ ops' = [ops EXCEPT ![p] =
                    @ \o <<Op("fetch", manifest_id, TRUE), Op("notify", manifest_id, FALSE)>>]
             /\ pc' = [pc EXCEPT ![p] = "notify_raised"]
             /\ UNCHANGED <<store, faults, manifests>>
          \/ /\ IsOpen(manifest_id)
             /\ faults < MaxFaults
             /\ faults' = faults + 1
             /\ ops' = [ops EXCEPT ![p] =
                    @ \o <<Op("fetch", manifest_id, TRUE), Op("notify", manifest_id, FALSE)>>]
             /\ pc' = [pc EXCEPT ![p] = "notify_raised"]
             /\ UNCHANGED <<store, manifests>>
    /\ UNCHANGED <<calls, source, file_url, entries, open_manifest_ids,
                   entry_path, batch>>

\* The id of each element of a result list: an element is a reference to a
\* Manifest object, and reads that object's id as it is on return.
ResultIds(p) == [i \in 1..Len(manifests[p]) |-> manifest[manifests[p][i]].id]

\* ------------------------------------------------------------ the callers
\* A call has returned (done) or raised: its caller is free to start another.
Done == {"add_done", "bulk_done", "notify_done"}
Raised == {"add_raised", "bulk_raised", "notify_raised"}

Return(p) ==
    /\ pc[p] \in Done \cup Raised
    /\ pc' = [pc EXCEPT ![p] = "idle"]
    /\ source' = [source EXCEPT ![p] = NoSource]
    /\ file_url' = [file_url EXCEPT ![p] = <<>>]
    /\ entries' = [entries EXCEPT ![p] = <<>>]
    /\ open_manifest_ids' = [open_manifest_ids EXCEPT ![p] = <<>>]
    /\ manifest' = [manifest EXCEPT ![p] = NewManifest]
    /\ entry_path' = [entry_path EXCEPT ![p] = <<>>]
    /\ batch' = [batch EXCEPT ![p] = NoBatch]
    /\ ops' = [ops EXCEPT ![p] = <<>>]
    /\ manifests' = [manifests EXCEPT ![p] = <<>>]
    /\ UNCHANGED <<store, faults, calls>>

\* The steps of a call that has started.
Step(p) ==
    \/ add_decide(p)
    \/ add_limit(p)
    \/ add_entry(p)
    \/ add_retry_create(p)
    \/ add_retry_entry(p)
    \/ add_notify(p)
    \/ bulk_add(p)
    \/ bulk_notify(p)
    \/ notify_loop(p)
    \/ Return(p)

\* Source configurations that differ in how the manifest is chosen and
\* closed: every mandatory key present, no path rewriting, no batch pattern.
ChoiceSources ==
    {src \in Sources : /\ HasMandatory(src) /\ src.id
                       /\ ~src.path_replace /\ src.batch_from_file_path_regex = 0}

\* With no rewriting and no pattern a url is opaque to the code, so the
\* k-th call submits its own url, and a bulk call a list of its own urls.
DigitChars == <<"1", "2", "3", "4", "5", "6", "7", "8", "9">>
CallFile(k) == <<"x", DigitChars[k]>>
CallEntries(k) ==
    {[i \in 1..n |-> [sourceFile |-> <<"x", DigitChars[k], DigitChars[i]>>,
                      batch |-> NoBatch]] : n \in 0..MaxEntries}

\* Callers are interchangeable and keep nothing between calls: a call is
\* started by the first caller that is free.
FirstFree(p) == pc[p] = "idle" /\ \A q \in Procs : q < p => pc[q] # "idle"

\* Independent callers, their calls interleaved step by step.
Next ==
    \E p \in Procs :
        \/ FirstFree(p) /\ add_begin(p, ChoiceSources, {CallFile(calls + 1)}, MaxCalls)
        \/ FirstFree(p) /\ bulk_begin(p, ChoiceSources, CallEntries(calls + 1), MaxCalls)
        \/ FirstFree(p) /\ notify_begin(p, ChoiceSources, MaxCalls)
        \/ Step(p)

Spec == Init /\ [][Next]_vars

\* The source configurations of a call, with every key the called function
\* reads present or absent, and the keys it never reads absent.
AddSources ==
    {src \in Sources :
        /\ src.id
        /\ (~HasMandatory(src) \/ src.single_file_manifest)
              => src.max_files_in_manifest = 0
        /\ ~HasMandatory(src)
              => ~src.path_replace /\ src.batch_from_file_path_regex = 0}

BulkSources ==
    {src \in Sources :
        /\ src.id /\ ~src.single_file_manifest /\ src.max_files_in_manifest = 0
        /\ ~HasMandatory(src)
              => ~src.path_replace /\ src.batch_from_file_path_regex = 0}

NotifySources ==
    {src \in Sources :
        /\ ~src.single_file_manifest /\ src.max_files_in_manifest = 0
        /\ ~src.path_replace /\ src.batch_from_file_path_regex = 0}

\* One call at a time: ordinary calls fill the store, and the last call
\* ranges over every source configuration and url.
NextConfig ==
    \E p \in Procs :
        \/ /\ FirstFree(p) /\ \A q \in Procs : pc[q] = "idle"
           /\ calls + 1 < MaxConfigCalls
           /\ \/ add_begin(p, ChoiceSources, {CallFile(calls + 1)}, MaxConfigCalls)
              \/ bulk_begin(p, ChoiceSources, CallEntries(calls + 1), MaxConfigCalls)
              \/ notify_begin(p, ChoiceSources, MaxConfigCalls)
        \/ /\ FirstFree(p) /\ \A q \in Procs : pc[q] = "idle"
           /\ calls + 1 = MaxConfigCalls
           /\ \/ add_begin(p, AddSources, Files, MaxConfigCalls)
              \/ bulk_begin(p, BulkSources, EntryLists(Files), MaxConfigCalls)
              \/ notify_begin(p, NotifySources, MaxConfigCalls)
        \/ Step(p)

SpecConfig == Init /\ [][NextConfig]_vars

\* The configurations of one source's writers in non-single-file mode:
\* max_files_in_manifest absent or set to the limit.
WriterSources ==
    {src \in ChoiceSources :
        ~src.single_file_manifest /\ src.max_files_in_manifest \in {0, MaxFilesLimit}}

\* The steps of add_to_manifest in non-single-file mode and of notify_manifests.
SerialStep(p) ==
    \/ add_decide(p)
    \/ add_limit(p)
    \/ add_entry(p)
    \/ add_retry_create(p)
    \/ add_retry_entry(p)
    \/ notify_loop(p)
    \/ Return(p)

\* No call of caller q is running: q is idle or its last call has ended.
NotRunning(q) == pc[q] \in {"idle"} \cup Done \cup Raised

\* One writer at a time: a call starts when no other call is running.
NextSerial ==
    \E p \in Procs :
        \/ /\ FirstFree(p) /\ \A q \in Procs : NotRunning(q)
           /\ add_begin(p, WriterSources, {CallFile(calls + 1)}, MaxSerialCalls)
        \/ /\ FirstFree(p) /\ \A q \in Procs : NotRunning(q)
           /\ notify_begin(p, {src \in WriterSources : src.max_files_in_manifest = 0},
                           MaxSerialCalls)
        \/ SerialStep(p)

SpecSerial == Init /\ [][NextSerial]_vars

\* ======================================================= reading a call
\* The positions of a call's operations of one kind, and how many there are.
OpsAt(p, op) == {i \in 1..Len(ops[p]) : ops[p][i].op = op}
Count(p, op) == Cardinality(OpsAt(p, op))

\* The i-th operation of a kind (callers make sure it exists).
Nth(p, op, n) ==
    ops[p][CHOOSE i \in OpsAt(p, op) : Cardinality({j \in OpsAt(p, op) : j <= i}) = n]

\* The ids of the manifests the call has created.
OwnCreated(p) == {ops[p][i].id : i \in OpsAt(p, "create")}

InAdd(p) ==
    pc[p] \in {"add_decide", "add_limit", "add_entry", "add_retry_create",
               "add_retry_entry", "add_notify", "add_done", "add_raised"}
InBulk(p) == pc[p] \in {"bulk_add", "bulk_notify", "bulk_done", "bulk_raised"}
InNotify(p) == pc[p] \in {"notify_loop", "notify_done", "notify_raised"}

\* The search of this add_to_manifest call returned candidates, the first
\* add_entry went to the last of them, and it failed.
FirstAddFailedOnCandidate(p) ==
    /\ InAdd(p)
    /\ open_manifest_ids[p] # <<>>
    /\ Count(p, "add_entry") >= 1
    /\ ~Nth(p, "add_entry", 1).ok
    /\ Nth(p, "add_entry", 1).id = Candidate(open_manifest_ids[p])

\* ------------------------------------------------------------------- C1
\* C1: when the search returned one OPEN manifest and the first add_entry on
\* that candidate failed, the finished call has issued exactly one create and
\* exactly two add_entry, the second against the manifest just created, and a
\* call that returns hands back that manifest, whose id is not the candidate's.
C1_ConflictRecovery ==
    \A p \in Procs :
        (/\ pc[p] \in {"add_done", "add_raised"}
         /\ Len(open_manifest_ids[p]) = 1
         /\ FirstAddFailedOnCandidate(p))
        => /\ Count(p, "create") = 1
           /\ Count(p, "add_entry") = 2
           /\ Nth(p, "add_entry", 2).id = Nth(p, "create", 1).id
           /\ Nth(p, "create", 1).id # Candidate(open_manifest_ids[p])
           /\ \E i \in OpsAt(p, "create") :
                 /\ ops[p][i - 1].op = "add_entry"
                 /\ ops[p][i + 1].op = "add_entry"
           /\ pc[p] = "add_done" =>
                 /\ manifest[p].id = Nth(p, "create", 1).id
                 /\ manifest[p].id # Candidate(open_manifest_ids[p])
                 /\ Nth(p, "add_entry", 2).ok

\* A call that recovered from a failed append on its one candidate and returned.
C1_Witness ==
    \E p \in Procs :
        /\ pc[p] = "add_done"
        /\ Len(open_manifest_ids[p]) = 1
        /\ FirstAddFailedOnCandidate(p)

\* ------------------------------------------------------------------- C2
\* C2: in a call that searched and found OPEN manifests, the candidate is a
\* manifest of the search result with the greatest `created`, and every fetch
\* and add_entry of the call goes to the candidate or to a manifest the call
\* created itself, never to another manifest of the search result.
C2_NewestCandidate ==
    \A p \in Procs :
        (InAdd(p) /\ open_manifest_ids[p] # <<>>)
        => LET ids == open_manifest_ids[p]
               cand == Candidate(ids)
           IN /\ \A i \in 1..Len(ids) : store[ids[i]].created <= store[cand].created
              /\ \A k \in 1..Len(ops[p]) :
                    ops[p][k].op \in {"fetch", "fetch_entries", "add_entry"}
                    => ops[p][k].id \in {cand} \cup OwnCreated(p)

\* A call whose search returned several OPEN manifests appended to the newest.
C2_Witness ==
    \E p \in Procs :
        /\ pc[p] = "add_done"
        /\ Len(open_manifest_ids[p]) >= 2
        /\ Nth(p, "add_entry", 1).ok
        /\ Nth(p, "add_entry", 1).id = Len(store)

\* ------------------------------------------------------------------- C3
\* A returned or running call that found a candidate with a limit configured
\* and has taken the decision of lines 189-197.
LimitDecided(p) ==
    /\ pc[p] \in {"add_entry", "add_retry_create", "add_retry_entry", "add_done",
                  "add_raised"}
    /\ source[p].max_files_in_manifest # 0
    /\ open_manifest_ids[p] # <<>>

\* C3 as stated: a call that returns, with max_files_in_manifest = N and a
\* candidate found, has created a manifest and appended to it when the
\* candidate held N entries or more, and has created no manifest and appended
\* to the candidate when it held N-1 entries or fewer.
C3_Original ==
    \A p \in Procs :
        (pc[p] = "add_done" /\ LimitDecided(p))
        => IF Len(manifest[p].manifest_entries) >= source[p].max_files_in_manifest
           THEN /\ Count(p, "create") >= 1
                /\ manifest[p].id \in OwnCreated(p)
           ELSE /\ Count(p, "create") = 0
                /\ manifest[p].id = Candidate(open_manifest_ids[p])

\* C3 as amended: with N entries or more the call creates a manifest before
\* its first add_entry and never appends to the candidate; with N-1 or fewer
\* its first add_entry goes to the candidate with no create before it, and
\* when that add_entry succeeds the call creates no manifest and returns the
\* candidate (when it fails, the conflict recovery creates one).
C3_Limit ==
    \A p \in Procs :
        LimitDecided(p)
        => LET cand == Candidate(open_manifest_ids[p]) IN
           IF Len(manifest[p].manifest_entries) >= source[p].max_files_in_manifest
           THEN /\ ops[p][4] = Op("create", ops[p][4].id, TRUE)
                /\ \A i \in OpsAt(p, "add_entry") : ops[p][i].id \in OwnCreated(p)
                /\ manifest[p].id \in OwnCreated(p)
                /\ cand \notin OwnCreated(p)
           ELSE /\ ops[p][4] = Op("fetch", cand, TRUE)
                /\ Count(p, "add_entry") >= 1 =>
                      /\ ops[p][5] = Nth(p, "add_entry", 1)
                      /\ ops[p][5].id = cand
                      /\ ops[p][5].ok =>
                            /\ Count(p, "create") = 0
                            /\ pc[p] = "add_done"
                            /\ manifest[p].id = cand

\* A call with a limit of N >= 2 reused a candidate holding N-1 entries.
C3_Witness ==
    \E p \in Procs :
        /\ pc[p] = "add_done" /\ LimitDecided(p)
        /\ Len(manifest[p].manifest_entries) >= 1
        /\ Len(manifest[p].manifest_entries) = source[p].max_files_in_manifest - 1
        /\ Count(p, "create") = 0
        /\ manifest[p].id = Candidate(open_manifest_ids[p])
        /\ Len(store[manifest[p].id].entries) = source[p].max_files_in_manifest

\* ------------------------------------------------------------------- C4
\* C4 as stated: a call with single_file_manifest that returns hands back a
\* manifest that is NOTIFIED and holds exactly one entry, that of the call.
C4_Original ==
    \A p \in Procs :
        (pc[p] = "add_done" /\ source[p].single_file_manifest)
        => /\ store[manifest[p].id].state = "NOTIFIED"
           /\ store[manifest[p].id].entries =
                 <<[sourceFile |-> entry_path[p], batch |-> batch[p]]>>

\* ------------------------------------------------------------------- C5
\* The operations of a notify_manifests call over ids: the search, then a
\* fetch and a notify of each id in order.
RECURSIVE NotifyOps(_)
NotifyOps(ids) ==
    IF ids = <<>> THEN <<Op("search", 0, TRUE)>>
    ELSE NotifyOps(SubSeq(ids, 1, Len(ids) - 1))
         \o <<Op("fetch", ids[Len(ids)], TRUE), Op("notify", ids[Len(ids)], TRUE)>>

\* C5 as stated: a notify_manifests call that returns has fetched and notified
\* each manifest of the search result once, in order, and its result list has
\* one element per manifest, the i-th carrying the i-th id, each NOTIFIED.
C5_Original ==
    \A p \in Procs :
        pc[p] = "notify_done"
        => /\ ops[p] = NotifyOps(open_manifest_ids[p])
           /\ Len(manifests[p]) = Len(open_manifest_ids[p])
           /\ ResultIds(p) = open_manifest_ids[p]
           /\ \A i \in 1..Len(manifests[p]) : store[ResultIds(p)[i]].state = "NOTIFIED"

\* ------------------------------------------------------------------- C6
\* C6 as stated: a notify_manifests call whose source carries the mandatory
\* keys and whose search finds no OPEN manifest returns the empty list: it
\* does not raise, and its only remote operation is the search.
C6_Original ==
    \A p \in Procs :
        (InNotify(p) /\ HasMandatory(source[p]) /\ open_manifest_ids[p] = <<>>)
        => /\ pc[p] = "notify_done"
           /\ manifests[p] = <<>>
           /\ ops[p] = <<Op("search", 0, TRUE)>>

\* ------------------------------------------------------------------- C7
\* C7: the remote operations of add_multiple_entries_to_manifest are, in
\* order, create, one add_entries and notify, all on the manifest its own
\* create made: no search, no fetch, nothing on another manifest; a call
\* that returns has issued all three.
C7_BulkCreates ==
    \A p \in Procs :
        (InBulk(p) /\ HasMandatory(source[p]))
        => LET id == manifest[p].id
               all == <<Op("create", id, TRUE), Op("add_entries", id, TRUE),
                        Op("notify", id, TRUE)>>
           IN /\ Len(ops[p]) \in 1..3
              /\ ops[p][1] = all[1]
              /\ \A i \in 1..Len(ops[p]) :
                    /\ ops[p][i].op = all[i].op /\ ops[p][i].id = id
                    /\ ~ops[p][i].ok => (i = Len(ops[p]) /\ pc[p] = "bulk_raised")
              /\ pc[p] = "bulk_done" => ops[p] = all

\* A bulk call returned its own manifest while an older manifest was OPEN.
C7_Witness ==
    \E p \in Procs :
        /\ pc[p] = "bulk_done"
        /\ \E i \in 1..Len(store) : i < manifest[p].id /\ store[i].state = "OPEN"

\* ------------------------------------------------------------------- C8
\* C8 as stated: with batch_from_file_path_regex configured and every
\* submitted path matching, every entry handed to add_entries carries the
\* batch parsed from its own sourceFile.
C8_Original ==
    \A p \in Procs :
        LET regexp == Patterns[source[p].batch_from_file_path_regex] IN
        (/\ pc[p] \in {"bulk_notify", "bulk_done"}
         /\ source[p].batch_from_file_path_regex # 0
         /\ \A i \in 1..Len(entries[p]) : parse_batch(entries[p][i].sourceFile, regexp).ok)
        => \A i \in 1..Len(entries[p]) :
              entries[p][i].batch = parse_batch(entries[p][i].sourceFile, regexp).value

\* ------------------------------------------------------------------- C9
\* C9 as stated: a call whose source lacks a mandatory key raises without
\* having issued any remote operation.
C9_Original ==
    \A p \in Procs :
        (pc[p] # "idle" /\ ~HasMandatory(source[p]))
        => pc[p] \in Raised /\ ops[p] = <<>>

\* ------------------------------------------------------------------ C10
\* C10: an add_to_manifest call makes at most two add_entry attempts and at
\* most one create after a failed add_entry; when the second attempt fails it
\* is the call's last remote operation and the call raises.
C10_SecondFailureFatal ==
    \A p \in Procs :
        InAdd(p)
        => /\ Count(p, "add_entry") <= 2
           /\ Cardinality({i \in OpsAt(p, "create") :
                  \E j \in OpsAt(p, "add_entry") : j < i}) <= 1
           /\ (Count(p, "add_entry") = 2 /\ ~Nth(p, "add_entry", 2).ok)
                 => /\ pc[p] = "add_raised"
                    /\ ops[p][Len(ops[p])] = Nth(p, "add_entry", 2)
                    /\ ~Nth(p, "add_entry", 1).ok

\* A call raised because its retried add_entry failed too.
C10_Witness ==
    \E p \in Procs :
        /\ pc[p] = "add_raised"
        /\ Count(p, "add_entry") = 2
        /\ ~Nth(p, "add_entry", 2).ok

\* ------------------------------------------------------------------ C11
\* C11: in an add_to_manifest call with batch_from_file_path_regex configured,
\* the batch is parsed from file_url as it was passed, not from the rewritten
\* path, and is absent when the parse fails; every add_entry that succeeds
\* appends the rewritten path with that batch, and the call raises only when
\* a remote operation failed, never because the extraction did.
C11_BatchFromOriginal ==
    \A p \in Procs :
        (/\ InAdd(p) /\ HasMandatory(source[p])
         /\ source[p].batch_from_file_path_regex # 0
         /\ Count(p, "add_entry") >= 1)
        => LET r == parse_batch(file_url[p], Patterns[source[p].batch_from_file_path_regex])
               e == [sourceFile |-> RewrittenPath(source[p], file_url[p]),
                     batch |-> IF r.ok THEN r.value ELSE NoBatch]
           IN /\ entry_path[p] = e.sourceFile
              /\ batch[p] = e.batch
              /\ \A i \in OpsAt(p, "add_entry") :
                    ops[p][i].ok =>
                        LET es == store[ops[p][i].id].entries
                        IN es # <<>> /\ es[Len(es)] = e
              /\ pc[p] = "add_raised" => ~ops[p][Len(ops[p])].ok
              /\ pc[p] = "add_done" => ops[p][Len(ops[p])].ok

\* A call returned whose url does not match the pattern while its rewritten
\* path does: the entry was appended with the rewritten path and no batch.
C11_Witness ==
    \E p \in Procs :
        /\ pc[p] = "add_done"
        /\ source[p].batch_from_file_path_regex # 0
        /\ source[p].path_replace
        /\ LET regexp == Patterns[source[p].batch_from_file_path_regex]
               es == store[manifest[p].id].entries
           IN /\ ~parse_batch(file_url[p], regexp).ok
              /\ parse_batch(entry_path[p], regexp).ok
              /\ es[Len(es)] = [sourceFile |-> entry_path[p], batch |-> NoBatch]

\* ------------------------------------------------------------------ C12
\* C12 as stated: in a bulk call with batch_from_file_path_regex configured,
\* when the extraction fails for the path of any one entry, no entry handed
\* to add_entries carries a batch, and the call appends all its entries and,
\* when it returns, has notified the manifest.
C12_Original ==
    \A p \in Procs :
        LET regexp == Patterns[source[p].batch_from_file_path_regex] IN
        (/\ pc[p] \in {"bulk_notify", "bulk_done"}
         /\ source[p].batch_from_file_path_regex # 0
         /\ \E i \in 1..Len(entries[p]) : ~parse_batch(entries[p][i].sourceFile, regexp).ok)
        => /\ \A i \in 1..Len(entries[p]) : entries[p][i].batch = NoBatch
           /\ store[manifest[p].id].entries = entries[p]
           /\ pc[p] = "bulk_done" => store[manifest[p].id].state = "NOTIFIED"

\* ------------------------------------------------------------------ C13
\* The OPEN manifests, and those of them that hold fewer entries than the limit.
OpenIds == {i \in 1..Len(store) : IsOpen(i)}
BelowLimit == {i \in OpenIds : Len(store[i].entries) < MaxFilesLimit}

C15_FailureRaises ==
    \A p \in Procs :
        InNotify(p) /\ HasMandatory(source[p])
        => /\ \A i \in 1..Len(ops[p]) :
                 ~ops[p][i].ok => (i = Len(ops[p]) /\ pc[p] = "notify_raised")
           /\ pc[p] = "notify_done" =>
                 /\ ops[p] = NotifyOps(open_manifest_ids[p])
                 /\ Len(manifests[p]) = Len(open_manifest_ids[p])
                 /\ \A i \in 1..Len(open_manifest_ids[p]) :
                       store[open_manifest_ids[p][i]].state = "NOTIFIED"

\* A call raised on its second manifest, after it had notified the first.
C15_Witness ==
    \E p \in Procs :
        /\ pc[p] = "notify_raised"
        /\ manifests[p] # <<>>
        /\ ~ops[p][Len(ops[p])].ok
        /\ ops[p][Len(ops[p])].op = "notify"

\* ------------------------------------------------------------------ C16
\* C16: an add_to_manifest call with single_file_manifest issues no search
\* and no fetch; its first remote operation is create, every operation goes
\* to a manifest the call created itself, and a call that returns has, as
\* its last two operations, appended its entry to the manifest it returns
\* and notified it.
C16_SingleFileCreates ==
    \A p \in Procs :
        (InAdd(p) /\ source[p].single_file_manifest /\ HasMandatory(source[p]))
        => /\ open_manifest_ids[p] = <<>>
           /\ \A i \in 1..Len(ops[p]) :
                 /\ ops[p][i].op \in {"create", "add_entry", "notify"}
                 /\ ops[p][i].id \in OwnCreated(p)
           /\ ops[p] # <<>> => ops[p][1].op = "create"
           /\ Len(ops[p]) >= 2 => ops[p][2] = Op("add_entry", ops[p][1].id, ops[p][2].ok)
           /\ pc[p] = "add_done" =>
                 /\ ops[p][Len(ops[p])] = Op("notify", manifest[p].id, TRUE)
                 /\ ops[p][Len(ops[p]) - 1] = Op("add_entry", manifest[p].id, TRUE)
                 /\ Count(p, "notify") = 1

\* A single-file call returned while an older manifest, not its own, was OPEN.
C16_Witness ==
    \E p \in Procs :
        /\ pc[p] = "add_done"
        /\ source[p].single_file_manifest
        /\ ops[p] = <<Op("create", manifest[p].id, TRUE),
                      Op("add_entry", manifest[p].id, TRUE),
                      Op("notify", manifest[p].id, TRUE)>>
        /\ \E i \in 1..Len(store) : i < manifest[p].id /\ IsOpen(i)

\* ------------------------------------------------------------------ C17
\* The positions of a path among the entries of manifest i.
Occurrences(i, path) ==
    {k \in 1..Len(store[i].entries) : store[i].entries[k].sourceFile = path}

\* C17: in every interleaving, the file of an add_to_manifest call that
\* returns is recorded exactly once in the manifest the call returns, and in
\* no other manifest.
C17_NoLossNoDuplicate ==
    \A p \in Procs :
        pc[p] = "add_done"
        => \A i \in 1..Len(store) :
              Cardinality(Occurrences(i, entry_path[p])) =
                  IF i = manifest[p].id THEN 1 ELSE 0

\* A call returned whose candidate was notified by another caller before
\* its add_entry: the file is in the manifest the call created instead.
C17_Witness ==
    \E p \in Procs :
        /\ pc[p] = "add_done"
        /\ FirstAddFailedOnCandidate(p)
        /\ store[Candidate(open_manifest_ids[p])].state = "NOTIFIED"
        /\ faults = 0
        /\ Occurrences(manifest[p].id, entry_path[p]) # {}

\* ------------------------------------------------------------------ C18
\* C18 as stated: when every call made so far is an add_to_manifest call in
\* non-single-file mode with max_files_in_manifest = n, no manifest holds
\* more than n entries.
C18_Original ==
    \A n \in 1..MaxFilesLimit :
        (/\ Cardinality({p \in Procs : pc[p] # "idle"}) = calls
         /\ \A p \in Procs :
               pc[p] # "idle" => /\ InAdd(p)
                                 /\ ~source[p].single_file_manifest
                                 /\ source[p].max_files_in_manifest = n)
        => \A i \in 1..Len(store) : Len(store[i].entries) <= n

\* ------------------------------------------------------------------ C19
\* C19 as stated: when the calls running beside a bulk call are
\* add_to_manifest calls, the manifest a bulk call returns is NOTIFIED and
\* holds exactly the entries of that call, in input order.
C19_Original ==
    \A p \in Procs :
        (/\ pc[p] = "bulk_done"
         /\ Cardinality({q \in Procs : pc[q] # "idle"}) = calls
         /\ \A q \in Procs \ {p} : pc[q] # "idle" => InAdd(q))
        => /\ store[manifest[p].id].state = "NOTIFIED"
           /\ store[manifest[p].id].entries = entries[p]

\* ------------------------------------------------------------------ C20
\* C20: with one call at a time, whenever a notify_manifests call returns,
\* no manifest is OPEN: every manifest, and so every entry appended by an
\* earlier add_to_manifest call, is NOTIFIED.  This holds for a call that is
\* run again after a call that failed part-way, too.
C20_QuiescentNotify ==
    [][\A p \in Procs :
          (pc[p] # "notify_done" /\ pc'[p] = "notify_done")
          => \A i \in 1..Len(store') : store'[i].state = "NOTIFIED"]_vars

\* One caller's notify_manifests failed on its second manifest after it had
\* notified the first; the call run after it returned, and every manifest,
\* with the entries appended before, is NOTIFIED.
C20_Witness ==
    \E p, q \in Procs :
        /\ pc[p] = "notify_raised"
        /\ manifests[p] # <<>>
        /\ ~ops[p][Len(ops[p])].ok
        /\ pc[q] = "notify_done"
        /\ manifests[q] # <<>>
        /\ Len(store) >= 2
        /\ \A i \in 1..Len(store) :
              store[i].state = "NOTIFIED" /\ store[i].entries # <<>>

====
